---- MODULE Spec2Model ----
(***************************************************************************)
(* One extraction run of streamlit_app.main(): the widgets' values, the    *)
(* validation of the request, the temporary copy of the upload, the call   *)
(* of client.whisper(wait_for_completion=True, wait_timeout=200), the      *)
(* rendering of the result or of the error, and the cleanup in `finally`.  *)
(*                                                                         *)
(* client.whisper is the repository's ExtractionClient: submit, then       *)
(* pollUntilTerminal (pollStatus at a fixed interval until processed,      *)
(* failed or timeout), then retrieve.  Its code is not in                  *)
(* streamlit_app.py; it is modelled from the specification, sections 4.1   *)
(* and 7.                                                                  *)
(***************************************************************************)
EXTENDS Integers, Sequences, FiniteSets, TLC

VARIABLES
    api_key,        \* line 28: TRUE when LLMWHISPERER_API_KEY is set
    uploaded,       \* line 40: TRUE when a file is in the uploader
    mode,           \* line 41
    pages,          \* line 47
    vert,           \* line 52
    horiz,          \* line 53
    pc,             \* position of the script run
    ui,             \* what the run has rendered, in order
    tmp_exists,     \* the temporary file is on disk
    tmp_path,       \* line 73: the local tmp_path is bound
    exc,            \* the exception in flight or caught (NoExc when none)
    result,         \* line 79: what client.whisper returned (NoResult before)
    state,          \* pollUntilTerminal's state
    elapsed,        \* pollUntilTerminal's clock, in seconds
    last_reply,     \* the service's answer to the latest status call
    whisper_calls,  \* submissions made by this run
    status_calls,   \* status calls made by this run
    retrieve_calls, \* retrieve calls made by this run
    run,            \* line 58: TRUE when Extract was clicked
    cleanup         \* what the finally block's os.remove did

vars == <<api_key, uploaded, mode, pages, vert, horiz, pc, ui, tmp_exists,
          tmp_path, exc, result, state, elapsed, last_reply, whisper_calls,
          status_calls, retrieve_calls, run, cleanup>>

----------------------------------------------------------------------------
(* Bounds of the model *)

\* longest extracted text, in characters
MaxTextLen == 2
\* largest number of page descriptors in the metadata
MaxPages == 2

----------------------------------------------------------------------------
(* Values *)

Modes == {"native_text", "low_cost", "high_quality", "form", "table"}

PageSelectors == {"", "1-5,7,21-"}

Chars == {"a", " "}

RECURSIVE SeqsUpTo(_)
SeqsUpTo(n) ==
    IF n = 0 THEN {<<>>}
    ELSE LET shorter == SeqsUpTo(n - 1)
         IN  shorter \cup {Append(s, c) : s \in {t \in shorter : Len(t) = n - 1}, c \in Chars}

Texts == SeqsUpTo(MaxTextLen)

\* a key a dict does not hold; dict.get(key) gives None for it
None == <<"None">>

\* the two names under which the service may deliver the text
TextKeys == {"result_text", "extracted_text"}

\* wait_timeout of the whisper call
wait_timeout == 200

\* pollIntervalSeconds, the specification's default
PollIntervalSeconds == 3

\* getattr(e, "status_code", None) when the exception has no such attribute;
\* None and 0 are both falsy at line 120
NoCode == 0

\* an exception: its class, its status_code attribute (NoCode when it has
\* none), its message attribute ("none" when it has none) and str(e)
Exc(type, code, message, str) ==
    [type |-> type, status_code |-> code, message |-> message, str |-> str]

NoExc == Exc("none", NoCode, "none", "none")

\* the "extraction" dict of a result: the text under one of the two keys and
\* the per-page metadata (its length)
Extraction(key, text, n) ==
    [result_text |-> IF key = "result_text" THEN text ELSE None,
     extracted_text |-> IF key = "extracted_text" THEN text ELSE None,
     metadata |-> n]

NoExtraction == [result_text |-> None, extracted_text |-> None, metadata |-> 0]

Payloads == {Extraction(k, t, n) : k \in TextKeys, t \in Texts, n \in 0..MaxPages}

Result(status, message, extraction) ==
    [status |-> status, message |-> message, extraction |-> extraction]

NoResult == Result("none", "none", NoExtraction)

\* the messages a failed job or a failed call may carry
ServiceMessages == {"corrupt document", "unsupported file"}

\* what the service answers to a status call; "transport_error" is a call
\* that got no well-formed answer
ServiceReplies == {"processing", "processed", "failed", "unknown", "transport_error"}

\* what the service answers to a submission; NoCode is a call that got no
\* answer
SubmitResponses == {200, 202, 401, 500, NoCode}

\* one rendered widget
Widget(widget, what, code, status, message, text) ==
    [widget |-> widget, what |-> what, code |-> code, status |-> status,
     message |-> message, text |-> text]

Shown(widget, what) == Widget(widget, what, NoCode, "none", "none", <<>>)

----------------------------------------------------------------------------
(* The script's pure parts *)

\* a slip in the rule: the two boxes swapped
VertWithoutHoriz(h, v) == v /\ ~h

\* lines 55 and 65: horiz and not vert
HorizWithoutVert(h, v) == h /\ ~v

\* str.strip(): the text without its leading and trailing blanks
RECURSIVE LStrip(_)
LStrip(t) == IF t # <<>> /\ Head(t) = " " THEN LStrip(Tail(t)) ELSE t

RECURSIVE RStrip(_)
RStrip(t) ==
    IF t # <<>> /\ t[Len(t)] = " " THEN RStrip(SubSeq(t, 1, Len(t) - 1)) ELSE t

Strip(t) == RStrip(LStrip(t))

\* a slip at line 90: only a failed job is taken for an error
IsNotFailed(status) == status # "failed"

\* a slip at line 90: the status is not looked at
IsAnyStatus(status) == TRUE

\* line 90: the result's status is "processed"
IsProcessed(status) == status = "processed"

\* line 95: extraction.get("result_text", "") or ""
ExtractedText(extraction) ==
    LET v == IF extraction.result_text = None THEN <<>> ELSE extraction.result_text
    IN  IF v = <<>> THEN <<>> ELSE v

\* line 91: st.error(f"Processing status: {status}\n\nMessage: {message}")
StatusError(r) ==
    Widget("error", "Processing status", NoCode, r.status, r.message, <<>>)

\* lines 98-114: what a processed result renders
RenderProcessed(r) ==
    LET extracted_text == ExtractedText(r.extraction)
        metadata == r.extraction.metadata
    IN  <<Shown("success", "Extraction complete."),
          Shown("subheader", "Extracted Text")>>
        \o (IF Strip(extracted_text) # <<>>
            THEN <<Widget("text_area", "Result", NoCode, "none", "none", extracted_text),
                   Widget("download_button", "Download as .txt", NoCode, "none",
                          "none", extracted_text)>>
            ELSE <<Shown("warning", "No text returned.")>>)
        \o (IF metadata # 0
            THEN <<Widget("caption", "Total pages processed", metadata, "none",
                          "none", <<>>)>>
            ELSE <<>>)

\* lines 89-114: what a returned result renders
RenderResult(r) ==
    IF ~IsProcessed(r.status) THEN <<StatusError(r)>> ELSE RenderProcessed(r)

\* a slip at lines 119-121: the status code is not rendered
ExceptErrorWithoutCode(e) ==
    LET msg == IF e.message # "none" THEN e.message ELSE e.str
    IN  Widget("error", "Error: msg", NoCode, "none", msg, <<>>)

\* lines 118-123: what the except branch renders
ExceptError(e) ==
    LET msg == IF e.message # "none" THEN e.message ELSE e.str
        code == e.status_code
    IN  IF code # NoCode
        THEN Widget("error", "Error (code): msg", code, "none", msg, <<>>)
        ELSE Widget("error", "Error: msg", NoCode, "none", msg, <<>>)

\* a slip: the except branch submits again
AfterExceptRetry == "whisper"

\* line 116-124: after the except branch the run goes on to finally
AfterExcept == "finally"

\* lines 126-129: what os.remove(tmp_path) does: NameError when tmp_path was
\* never bound, else the file is removed or os.remove raises
CleanupOutcomes(bound) ==
    IF bound THEN {"removed", "remove_raised"} ELSE {"unbound"}

\* a slip at lines 126-129: the failure of the cleanup is rendered
AfterCleanupReported(rendered, outcome) ==
    IF outcome = "removed" THEN rendered
    ELSE <<Widget("error", "Error: msg", NoCode, "none", "cleanup failed", <<>>)>>

\* lines 128-129: except Exception: pass; the cleanup renders nothing
AfterCleanup(rendered, outcome) == rendered

----------------------------------------------------------------------------
(* ExtractionClient: submit, pollStatus, pollUntilTerminal, retrieve *)

\* submit: the success codes of a submission
Accepted(code) == code \in {200, 202}

\* submit: the error of a submission that was not accepted
SubmitError(code, body) ==
    IF code = 401 THEN Exc("AuthError", 401, body, body)
    ELSE IF code = NoCode THEN Exc("TransportError", NoCode, "none", "connection failed")
    ELSE Exc("SubmissionError", code, body, body)

\* a slip: a transport error is taken for a failed job
PollStatusInferred(reply) == IF reply = "transport_error" THEN "failed" ELSE reply

\* pollStatus: the status read from the service's answer; a transport error
\* is no terminal status
PollStatus(reply) == IF reply = "transport_error" THEN "unknown" ELSE reply

\* a slip: polling goes on after a failed status
IsProcessedOnly(status) == status = "processed"

\* JobStatus: processed and failed are terminal
IsTerminal(status) == status \in {"processed", "failed"}

\* pollUntilTerminal: the elapsed time exceeds timeoutSeconds
TimedOut(t) == t > wait_timeout

\* how a failure of the wait reaches the caller: as an exception (handled at
\* lines 116-123) or as a returned status payload (handled at lines 89-92)
Surfaces == {"raise", "return"}

\* the states in which pollUntilTerminal has ended
Ended == {"Processed", "Failed", "TimedOut"}

----------------------------------------------------------------------------
(* The script, lines 18-129 *)

Init ==
    /\ api_key \in BOOLEAN
    /\ uploaded \in BOOLEAN
    /\ mode \in Modes
    /\ pages \in PageSelectors
    /\ vert \in BOOLEAN
    /\ horiz \in BOOLEAN
    /\ pc = "start"
    /\ ui = <<>>
    /\ tmp_exists = FALSE
    /\ tmp_path = FALSE
    /\ exc = NoExc
    /\ result = NoResult
    /\ state = "NotSubmitted"
    /\ elapsed = 0
    /\ last_reply = "none"
    /\ whisper_calls = 0
    /\ status_calls = 0
    /\ retrieve_calls = 0
    /\ run = FALSE
    /\ cleanup = "none"

client == <<state, elapsed, last_reply, whisper_calls, status_calls, retrieve_calls>>
inputs == <<api_key, uploaded, mode, pages, vert, horiz>>

\* lines 35-37: no API key: error and st.stop()
MissingKey ==
    /\ pc = "start"
    /\ ~api_key
    /\ ui' = Append(ui, Shown("error", "Missing LLMWHISPERER_API_KEY"))
    /\ pc' = "stopped"
    /\ UNCHANGED <<inputs, client, tmp_exists, tmp_path, exc, result, run, cleanup>>

\* lines 40-60: the controls, the warning of line 56 and the button
Controls ==
    /\ pc = "start"
    /\ api_key
    /\ ui' = IF HorizWithoutVert(horiz, vert)
             THEN Append(ui, Shown("warning", "--horiz requires --vert"))
             ELSE ui
    /\ \E clicked \in BOOLEAN :
         /\ run' = clicked
         /\ pc' = IF clicked THEN "validate" ELSE "done"
    /\ UNCHANGED <<inputs, client, tmp_exists, tmp_path, exc, result, cleanup>>

\* lines 61-63: no file: warning and st.stop()
NoUpload ==
    /\ pc = "validate"
    /\ ~uploaded
    /\ ui' = Append(ui, Shown("warning", "Please upload a file."))
    /\ pc' = "stopped"
    /\ UNCHANGED <<inputs, client, tmp_exists, tmp_path, exc, result, run, cleanup>>

\* lines 65-67: horiz without vert: error and st.stop()
RejectBorders ==
    /\ pc = "validate"
    /\ uploaded
    /\ HorizWithoutVert(horiz, vert)
    /\ ui' = Append(ui, Shown("error", "--horiz requires --vert"))
    /\ pc' = "stopped"
    /\ UNCHANGED <<inputs, client, tmp_exists, tmp_path, exc, result, run, cleanup>>

\* lines 65, 69: the request is valid, the try block is entered
Accept ==
    /\ pc = "validate"
    /\ uploaded
    /\ ~HorizWithoutVert(horiz, vert)
    /\ pc' = "tmp_create"
    /\ UNCHANGED <<inputs, client, ui, tmp_exists, tmp_path, exc, result, run, cleanup>>

\* line 71: tempfile.NamedTemporaryFile(delete=False) creates the file
TmpCreate ==
    /\ pc = "tmp_create"
    /\ tmp_exists' = TRUE
    /\ pc' = "tmp_write"
    /\ UNCHANGED <<inputs, client, ui, tmp_path, exc, result, run, cleanup>>

\* line 71: tempfile.NamedTemporaryFile raises, no file is created
TmpCreateFails ==
    /\ pc = "tmp_create"
    /\ exc' = Exc("OSError", NoCode, "none", "cannot create temporary file")
    /\ pc' = "except"
    /\ UNCHANGED <<inputs, client, ui, tmp_exists, tmp_path, result, run, cleanup>>

\* lines 72-75: the upload is written, tmp_path is bound, st.info
TmpWrite ==
    /\ pc = "tmp_write"
    /\ tmp_path' = TRUE
    /\ ui' = Append(ui, Shown("info", "Processing"))
    /\ pc' = "whisper"
    /\ UNCHANGED <<inputs, client, tmp_exists, exc, result, run, cleanup>>

\* line 72: uploaded.read() or tmp.write() raises; tmp_path stays unbound
TmpWriteFails ==
    /\ pc = "tmp_write"
    /\ exc' = Exc("OSError", NoCode, "none", "cannot write temporary file")
    /\ pc' = "except"
    /\ UNCHANGED <<inputs, client, ui, tmp_exists, tmp_path, result, run, cleanup>>

\* lines 89-114: the returned result is rendered; the return of line 92 and
\* the end of the try block both go on to finally
Render ==
    /\ pc = "render"
    /\ ui' = ui \o RenderResult(result)
    /\ pc' = "finally"
    /\ UNCHANGED <<inputs, client, tmp_exists, tmp_path, exc, result, run, cleanup>>

\* lines 116-123: the except branch
Except ==
    /\ pc = "except"
    /\ ui' = Append(ui, ExceptError(exc))
    /\ pc' = AfterExcept
    /\ UNCHANGED <<inputs, client, tmp_exists, tmp_path, exc, result, run, cleanup>>

\* lines 124-129: the finally block
Finally ==
    /\ pc = "finally"
    /\ \E outcome \in CleanupOutcomes(tmp_path) :
         /\ cleanup' = outcome
         /\ tmp_exists' = IF outcome = "removed" THEN FALSE ELSE tmp_exists
         /\ ui' = AfterCleanup(ui, outcome)
    /\ pc' = "done"
    /\ UNCHANGED <<inputs, client, tmp_path, exc, result, run>>

\* lines 77-87, submit: the one submission; the service accepts it
Whisper ==
    /\ pc = "whisper"
    /\ whisper_calls' = whisper_calls + 1
    /\ \E code \in SubmitResponses :
         /\ Accepted(code)
         /\ state' = "Submitted"
         /\ pc' = "poll"
    /\ UNCHANGED <<inputs, ui, tmp_exists, tmp_path, exc, result, elapsed,
                   last_reply, status_calls, retrieve_calls, run, cleanup>>

\* lines 77-87, submit: the submission is not accepted and whisper raises
WhisperFails ==
    /\ pc = "whisper"
    /\ whisper_calls' = whisper_calls + 1
    /\ \E code \in SubmitResponses, body \in ServiceMessages :
         /\ ~Accepted(code)
         /\ exc' = SubmitError(code, body)
         /\ pc' = "except"
    /\ UNCHANGED <<inputs, ui, tmp_exists, tmp_path, result, state, elapsed,
                   last_reply, status_calls, retrieve_calls, run, cleanup>>

\* pollUntilTerminal: one status call, then retrieve, failure or the sleep
Poll ==
    /\ pc = "poll"
    /\ ~TimedOut(elapsed)
    /\ status_calls' = status_calls + 1
    /\ \E reply \in ServiceReplies, m \in ServiceMessages, surface \in Surfaces :
         LET status == PollStatus(reply)
         IN  /\ last_reply' = reply
             /\ IF ~IsTerminal(status)
                THEN /\ state' = "Processing"
                     /\ elapsed' = elapsed + PollIntervalSeconds
                     /\ UNCHANGED <<pc, exc, result>>
                ELSE IF status = "processed"
                THEN /\ state' = "Processed"
                     /\ pc' = "retrieve"
                     /\ UNCHANGED <<elapsed, exc, result>>
                ELSE /\ state' = "Failed"
                     /\ IF surface = "raise"
                        THEN /\ exc' = Exc("ExtractionFailed", NoCode, m, m)
                             /\ pc' = "except"
                             /\ UNCHANGED result
                        ELSE /\ result' = Result(status, m, NoExtraction)
                             /\ pc' = "render"
                             /\ UNCHANGED exc
                     /\ UNCHANGED elapsed
    /\ UNCHANGED <<inputs, ui, tmp_exists, tmp_path, whisper_calls,
                   retrieve_calls, run, cleanup>>

\* pollUntilTerminal: the timeout; the wait ends without a retrieve
PollTimeout ==
    /\ pc = "poll"
    /\ TimedOut(elapsed)
    /\ state' = "TimedOut"
    /\ \E surface \in Surfaces :
         IF surface = "raise"
         THEN /\ exc' = Exc("Timeout", NoCode, "wait timed out", "wait timed out")
              /\ pc' = "except"
              /\ UNCHANGED result
         ELSE /\ result' = Result(PollStatus(last_reply), "wait timed out", NoExtraction)
              /\ pc' = "render"
              /\ UNCHANGED exc
    /\ UNCHANGED <<inputs, ui, tmp_exists, tmp_path, elapsed, last_reply,
                   whisper_calls, status_calls, retrieve_calls, run, cleanup>>

\* retrieve: the final payload, the text under either key
Retrieve ==
    /\ pc = "retrieve"
    /\ retrieve_calls' = retrieve_calls + 1
    /\ \E payload \in Payloads :
         result' = Result("processed", "none", payload)
    /\ pc' = "render"
    /\ UNCHANGED <<inputs, ui, tmp_exists, tmp_path, exc, state, elapsed,
                   last_reply, whisper_calls, status_calls, run, cleanup>>

\* retrieve: the call fails
RetrieveFails ==
    /\ pc = "retrieve"
    /\ retrieve_calls' = retrieve_calls + 1
    /\ \E code \in {500, NoCode}, body \in ServiceMessages :
         exc' = SubmitError(code, body)
    /\ pc' = "except"
    /\ UNCHANGED <<inputs, ui, tmp_exists, tmp_path, result, state, elapsed,
                   last_reply, whisper_calls, status_calls, run, cleanup>>

Next ==
    \/ MissingKey
    \/ Controls
    \/ NoUpload
    \/ RejectBorders
    \/ Accept
    \/ TmpCreate
    \/ TmpCreateFails
    \/ TmpWrite
    \/ TmpWriteFails
    \/ Whisper
    \/ WhisperFails
    \/ Poll
    \/ PollTimeout
    \/ Retrieve
    \/ RetrieveFails
    \/ Render
    \/ Except
    \/ Finally

Spec == Init /\ [][Next]_vars

\* the script runs to its end: no step of it waits for anything but the
\* service's answer, and the sleep of the wait is finite
FairSpec == Spec /\ WF_vars(Next)

----------------------------------------------------------------------------
(* Properties *)

Rendered(widget) == \E i \in 1..Len(ui) : ui[i].widget = widget

TextShown ==
    Rendered("success") \/ Rendered("text_area") \/ Rendered("download_button")

Finished == pc \in {"finally", "done"}

\* the text a payload carries, under whichever of the two keys
PayloadText(extraction) ==
    IF extraction.result_text # None THEN extraction.result_text
    ELSE IF extraction.extracted_text # None THEN extraction.extracted_text
    ELSE <<>>

\* what a run that entered the try block reports, whatever the cleanup did
Report ==
    (IF tmp_path THEN <<Shown("info", "Processing")>> ELSE <<>>)
    \o (IF exc # NoExc THEN <<ExceptError(exc)>> ELSE RenderResult(result))

\* C1: whenever Extract is clicked with horiz checked and vert unchecked, the
\* run is stopped by the validation (the error of line 66, or the warning of
\* line 62 when no file was uploaded either) with no temporary file created
\* and no call of the client, for every mode and page selector.
C1_HorizWithoutVertRejected ==
    (run /\ horiz /\ ~vert) =>
        /\ pc \in {"validate", "stopped"}
        /\ ~tmp_exists /\ ~tmp_path
        /\ whisper_calls = 0 /\ status_calls = 0 /\ retrieve_calls = 0
        /\ pc = "stopped" =>
             ui[Len(ui)] = IF uploaded
                           THEN Shown("error", "--horiz requires --vert")
                           ELSE Shown("warning", "Please upload a file.")

C1_Witness ==
    /\ run /\ horiz /\ ~vert /\ uploaded
    /\ mode = "table" /\ pages = "1-5,7,21-"
    /\ pc = "stopped"

\* C2: when a run that created the temporary file ends, the file no longer
\* exists.
C2_TempFileRemoved == pc = "done" => ~tmp_exists

\* C3: status is called until a terminal status is observed and not after it;
\* retrieve is called only after a processed status, at most once, and a wait
\* that returned a result after a processed status called it exactly once and
\* returns what it retrieved.
C3_PollThenRetrieveOnce ==
    /\ [][(last_reply \in {"processed", "failed"}) => (status_calls' = status_calls)]_vars
    /\ [][retrieve_calls' # retrieve_calls =>
            /\ last_reply = "processed"
            /\ retrieve_calls = 0
            /\ result' \in {Result("processed", "none", p) : p \in Payloads} \cup {NoResult}]_vars
    /\ [](retrieve_calls > 0 => last_reply = "processed" /\ status_calls > 0)
    /\ []((state = "Processed" /\ pc \in {"render", "finally", "done"} /\ exc = NoExc) =>
            retrieve_calls = 1 /\ result.status = "processed")
    /\ []((state \in {"Submitted", "Processing"}) => pc = "poll")

C3_Witness ==
    /\ pc = "done" /\ state = "Processed"
    /\ status_calls = 3 /\ elapsed = 2 * PollIntervalSeconds
    /\ retrieve_calls = 1
    /\ result.extraction.result_text = <<"a">>

\* C4: a wait that exceeds wait_timeout never calls retrieve and ends in an
\* error; no extracted text is displayed or offered for download.
C4_TimeoutNoRetrieve ==
    state = "TimedOut" =>
        /\ elapsed > wait_timeout
        /\ retrieve_calls = 0
        /\ ~TextShown
        /\ Finished => ui[Len(ui)].widget = "error"

C4_Witness ==
    /\ state = "TimedOut" /\ pc = "done"
    /\ result.status = "processing"
    /\ status_calls > 1

\* C5: a submission answered 401 fails with AuthError with no status call and
\* no retrieve call, and the error rendered carries the status code.
C5_AuthErrorBeforePolling ==
    exc.type = "AuthError" =>
        /\ status_calls = 0 /\ retrieve_calls = 0
        /\ state = "NotSubmitted"
        /\ exc.status_code = 401
        /\ Finished =>
             /\ ui[Len(ui)].widget = "error"
             /\ ui[Len(ui)].code = 401
             /\ ui[Len(ui)].message = exc.message

C5_Witness == exc.type = "AuthError" /\ pc = "done" /\ whisper_calls = 1

\* C6: a processed payload yields the same text whichever of the two keys
\* carries it.
C6_EitherKeySameText ==
    (result.status = "processed" /\ Finished) =>
        /\ ExtractedText(result.extraction) = PayloadText(result.extraction)
        /\ Strip(PayloadText(result.extraction)) # <<>> => Rendered("text_area")

\* C7: for every result whose status is not "processed", an error showing the
\* status and the message is rendered, and the success message, the text area
\* and the download button are not; a failed job never reaches retrieve.
C7_NonProcessedIsError ==
    /\ (result # NoResult /\ result.status # "processed") =>
          /\ retrieve_calls = 0
          /\ ~TextShown
          /\ Finished =>
               /\ ui[Len(ui)].widget = "error"
               /\ ui[Len(ui)].status = result.status
               /\ ui[Len(ui)].message = result.message
    /\ state = "Failed" => retrieve_calls = 0 /\ ~TextShown

C7_Witness ==
    /\ pc = "done" /\ state = "Failed"
    /\ result.status = "failed" /\ result.message = "corrupt document"

\* C8: whatever the cleanup did (removed the file, raised, or found tmp_path
\* unbound), the run reports what the extraction produced: the error of every
\* exception raised in the try block, or the rendering of the result.
C8_CleanupNeverMasks ==
    (pc = "done" /\ cleanup # "none") =>
        /\ ui = Report
        /\ exc # NoExc => ui[Len(ui)].widget = "error"

C8_Witness ==
    /\ pc = "done" /\ cleanup = "remove_raised"
    /\ exc.type = "Timeout"

\* C9: a run makes at most one submission, and after a failed submission it
\* ends with the error, with no second submission.
C9_SingleSubmission ==
    /\ whisper_calls <= 1
    /\ pc \in {"poll", "retrieve", "render"} => whisper_calls = 1
    /\ exc.type \in {"AuthError", "SubmissionError", "TransportError"} =>
          /\ pc \in {"except", "finally", "done"}
          /\ Finished => ui[Len(ui)] = ExceptError(exc)

C9_Witness ==
    /\ pc = "done" /\ whisper_calls = 1
    /\ exc.type = "SubmissionError" /\ status_calls = 0

\* C10: the wait always ends in one of Processed, Failed or TimedOut and stays
\* there; it ends Processed or Failed only on the service's explicit status,
\* never on a transport error.
C10_WaitEnds ==
    /\ (state \in {"Submitted", "Processing"}) ~> (state \in Ended)
    /\ [][(state \in Ended) => (state' = state)]_vars
    /\ [](state = "Processed" => last_reply = "processed")
    /\ [](state = "Failed" => last_reply = "failed")
    /\ [](state = "TimedOut" => elapsed > wait_timeout /\ ~IsTerminal(last_reply))

C10_Witness ==
    /\ state = "TimedOut" /\ last_reply = "transport_error"
    /\ pc = "done"

====
